---------------------------- MODULE Spec2Model ----------------------------
(***************************************************************************)
(* Board engine and driving loops of the LLM battle arena:                 *)
(*   battle_ui.py  - board, make_move, check_game_over, run_game_loop      *)
(*   game.py       - the same board with a mouse-driven main loop          *)
(*   run_battle.py - run_game_with_callback, which reports a game's result *)
(*   llm_battle/agents - get_move of the agents and the fallback selectors *)
(*                                                                         *)
(* The grid is GRID_SIZE x GRID_SIZE.  The program fixes GRID_SIZE = 8;    *)
(* the model takes it from 1..MaxGrid so that the boards can be enumerated.*)
(* Rows and columns are 0-based as in the code; cells hold 0 (Empty), 1 or *)
(* 2 (the owning player).                                                  *)
(***************************************************************************)
EXTENDS Integers, Sequences, FiniteSets, TLC

\* Largest grid side explored (the program's GRID_SIZE is 8).
MaxGrid == 3

\* Python's None as the value of winner: neither player.
None == 0

VARIABLES
    GRID_SIZE,       \* battle_ui.GRID_SIZE / game.GRID_SIZE
    driver,          \* which main loop runs: "battle_ui", "game" or "call"
    board,           \* board[r][c], the numpy array
    current_player,  \* 1 or 2
    game_over,       \* BOOLEAN
    winner,          \* None, 1 or 2
    llm_thinking,    \* battle_ui.llm_thinking
    auto_restart,    \* battle_ui.auto_restart (set by set_tournament_config)
    pc,              \* position of the driver
    result,          \* the dictionary returned by run_game_with_callback
    call,            \* the last call of make_move in this game: its arguments,
                     \* what the target cell held, and whether it raised
    pre,             \* for a direct call of make_move: the board before it
    agent,           \* the agent whose method was called: "random", "groq",
                     \* "google" ("none" in the drivers)
    board_type,      \* how the board reaches the fallback selector: "list"
                     \* (board.tolist()) or "ndarray" (np.array(...))
    valid_moves,     \* board_state["valid_moves"]: a list of (row, col)
    attempt,         \* the loop variable of an agent's retry loop
    outcome,         \* how the called method ended: a move, None or an error
    battle_stats,    \* battle_ui.battle_stats: wins of 1 and 2, ties, games
    state_callback,  \* the state_callback given to run_game_with_callback
    last_move,       \* last_move of run_game_with_callback
    moves_history,   \* moves_history of the game that run_match is running
    google_seat,     \* the player for whom a GoogleAgent moves (0: none)
    first_move_of_game,  \* that GoogleAgent's first_move_of_game
    num_agents,      \* len(self.agents) of the Tournament
    num_games,       \* self.num_games
    pair,            \* <<i, j>> of the loops of run_tournament
    game_num,        \* game_num of the loop of run_match
    current_game_id, \* self.current_game_id
    stats,           \* per agent: games_played, wins, losses, ties
    match_results,   \* match_results of the match that run_match is running
    matches          \* tournament_results["matches"], as the pairs <<i, j>>

vars == <<GRID_SIZE, driver, board, current_player, game_over, winner,
          llm_thinking, auto_restart, pc, result, call, pre,
          agent, board_type, valid_moves, attempt, outcome,
          battle_stats, state_callback, last_move, moves_history,
          google_seat, first_move_of_game,
          num_agents, num_games, pair, game_num, current_game_id, stats,
          match_results, matches>>

\* The variables of the agents.
agentvars == <<agent, board_type, valid_moves, attempt, outcome>>

\* What a match adds to the game loop: the statistics of battle_ui, the
\* recording of run_game_with_callback and run_match, and the GoogleAgent.
matchvars == <<battle_stats, state_callback, last_move, moves_history,
               google_seat, first_move_of_game>>

\* The variables of the Tournament and of its agents' records.
tournamentvars == <<num_agents, num_games, pair, game_num, current_game_id,
                    stats, match_results, matches>>

\* last_move = None
NoMove == <<>>

\* battle_stats = {"wins": {1: 0, 2: 0}, "ties": 0, "games": 0}
NoStats == [wins |-> <<0, 0>>, ties |-> 0, games |-> 0]

\* match_results as run_match sets it up for agents[a1] and agents[a2]
\* (games: the length of its list of game records).
NewMatch(a1, a2) ==
    [agent1 |-> a1, agent2 |-> a2, games |-> 0,
     agent1_wins |-> 0, agent2_wins |-> 0, ties |-> 0]

\* The variables of a match where no match is running: the module state of
\* battle_ui as imported, no callback, no GoogleAgent.
MatchIdle ==
    /\ battle_stats = NoStats
    /\ state_callback = "None"
    /\ last_move = NoMove
    /\ moves_history = <<>>
    /\ google_seat = 0
    /\ first_move_of_game = TRUE

\* The variables of the Tournament where there is none.
TournamentIdle ==
    /\ num_agents = 0
    /\ num_games = 0
    /\ pair = <<0, 0>>
    /\ game_num = 0
    /\ current_game_id = 0
    /\ stats = <<>>
    /\ match_results = NewMatch(0, 0)
    /\ matches = <<>>

----------------------------------------------------------------------------
(* The board *)

Players == {1, 2}

Rows == 0 .. (GRID_SIZE - 1)

Cells == Rows \X Rows

\* np.zeros((GRID_SIZE, GRID_SIZE), dtype=int)
EmptyBoard == [r \in Rows |-> [c \in Rows |-> 0]]

\* 0 <= r < GRID_SIZE and 0 <= c < GRID_SIZE
InRange(r, c) == 0 <= r /\ r < GRID_SIZE /\ 0 <= c /\ c < GRID_SIZE

\* Variant: only the bounds are tested.
is_valid_move_BoundsOnly(b, row, col) == InRange(row, col)

\* is_valid_move(row, col): the bounds are tested first, so the array is
\* only read for an in-range cell.
is_valid_move(b, row, col) == InRange(row, col) /\ b[row][col] = 0

\* get_valid_moves(): the Empty cells.
get_valid_moves(b) == {m \in Cells : is_valid_move(b, m[1], m[2])}

\* Variant: the two loops nested the other way round (column by column).
RECURSIVE get_valid_moves_list_ColumnMajor(_, _)
get_valid_moves_list_ColumnMajor(b, k) ==
    IF k >= GRID_SIZE * GRID_SIZE THEN <<>>
    ELSE LET col == k \div GRID_SIZE
             row == k % GRID_SIZE
         IN  (IF b[row][col] = 0 THEN <<<<row, col>>>> ELSE <<>>)
                \o get_valid_moves_list_ColumnMajor(b, k + 1)

\* get_valid_moves() as the list it builds: "for row in range(GRID_SIZE):
\* for col in range(GRID_SIZE): if board[row, col] == 0: append((row, col))",
\* from the k-th cell of that enumeration on.
RECURSIVE get_valid_moves_list(_, _)
get_valid_moves_list(b, k) ==
    IF k >= GRID_SIZE * GRID_SIZE THEN <<>>
    ELSE LET row == k \div GRID_SIZE
             col == k % GRID_SIZE
         IN  (IF b[row][col] = 0 THEN <<<<row, col>>>> ELSE <<>>)
                \o get_valid_moves_list(b, k + 1)

\* get_board_state()["valid_moves"]
board_state_valid_moves(b) == get_valid_moves_list(b, 0)

\* Variant: np.any in place of np.all.
is_board_full_Any(b) == \E m \in Cells : b[m[1]][m[2]] # 0

\* np.all(board != 0)
is_board_full(b) == \A m \in Cells : b[m[1]][m[2]] # 0

\* np.sum(board == p)
CountOf(b, p) == Cardinality({m \in Cells : b[m[1]][m[2]] = p})

\* count_pieces()
count_pieces(b) == <<CountOf(b, 1), CountOf(b, 2)>>

\* numpy indexing of one axis: -GRID_SIZE .. GRID_SIZE-1 are accepted and a
\* negative index counts from the end; anything else raises IndexError.
NpIndexOk(i) == -GRID_SIZE <= i /\ i < GRID_SIZE

NpIndex(i) == IF i < 0 THEN i + GRID_SIZE ELSE i

\* Variant: the diagonals are directions too.
directions_WithDiagonals ==
    <<<<-1, 0>>, <<1, 0>>, <<0, -1>>, <<0, 1>>,
      <<-1, -1>>, <<-1, 1>>, <<1, -1>>, <<1, 1>>>>

\* directions = [(-1, 0), (1, 0), (0, -1), (0, 1)]  # Up, Down, Left, Right
directions == <<<<-1, 0>>, <<1, 0>>, <<0, -1>>, <<0, 1>>>>

\* Variant: the test "board[r, c] != 0" left out.
Capturable_NoEmptyTest(b, r, c, player) ==
    InRange(r, c) /\ b[r][c] # player

\* The test of the capture loop for the neighbour (r, c).
Capturable(b, r, c, player) ==
    InRange(r, c) /\ b[r][c] # 0 /\ b[r][c] # player

\* Variant: a captured cell is marked with a value of its own instead of
\* the capturing player.
CaptureValue_Marker(player) == player + 2

\* Variant: a captured piece is taken off the board.
CaptureValue_Remove(player) == 0

\* The value written into a captured cell.
CaptureValue(player) == player

\* Variant: the loop is left after its first capture (a break).
RECURSIVE CaptureLoop_StopAtFirst(_, _, _, _, _)
CaptureLoop_StopAtFirst(b, row, col, player, i) ==
    IF i > Len(directions) THEN b
    ELSE LET r == row + directions[i][1]
             c == col + directions[i][2]
         IN  IF Capturable(b, r, c, player)
             THEN [b EXCEPT ![r][c] = CaptureValue(player)]
             ELSE CaptureLoop_StopAtFirst(b, row, col, player, i + 1)

\* The capture loop from its i-th direction on: the neighbours are examined
\* one after the other and flipped in place.
RECURSIVE CaptureLoop(_, _, _, _, _)
CaptureLoop(b, row, col, player, i) ==
    IF i > Len(directions) THEN b
    ELSE LET r == row + directions[i][1]
             c == col + directions[i][2]
         IN  IF Capturable(b, r, c, player)
             THEN CaptureLoop([b EXCEPT ![r][c] = CaptureValue(player)],
                              row, col, player, i + 1)
             ELSE CaptureLoop(b, row, col, player, i + 1)

\* The same loop with the list of directions ds in place of directions:
\* "for dr, dc in ds", each neighbour tested on the board as the passes
\* before it left it, and flipped in place.
RECURSIVE CaptureLoopIn(_, _, _, _, _)
CaptureLoopIn(ds, b, row, col, player) ==
    IF ds = <<>> THEN b
    ELSE LET r == row + Head(ds)[1]
             c == col + Head(ds)[2]
         IN  CaptureLoopIn(Tail(ds),
                           IF Capturable(b, r, c, player)
                           THEN [b EXCEPT ![r][c] = CaptureValue(player)]
                           ELSE b,
                           row, col, player)

\* make_move(row, col, player) with its loop over ds (it does not raise).
make_move_in(ds, b, row, col, player) ==
    CaptureLoopIn(ds, [b EXCEPT ![NpIndex(row)][NpIndex(col)] = player],
                  row, col, player)

\* make_move(row, col, player) has no test of its arguments: its first
\* statement board[row, col] = player either raises IndexError, and then
\* nothing has been written, or writes, through numpy's indexing, over
\* whatever the cell held.
make_move_raises(row, col) == ~(NpIndexOk(row) /\ NpIndexOk(col))

\* The board that make_move(row, col, player) leaves.
make_move(b, row, col, player) ==
    IF make_move_raises(row, col) THEN b
    ELSE CaptureLoop([b EXCEPT ![NpIndex(row)][NpIndex(col)] = player],
                     row, col, player, 1)

----------------------------------------------------------------------------
(* Outcome of a game *)

\* Variant: >= in the first comparison, so equal counts go to player 1.
DetermineWinner_Geq(b) ==
    LET n == count_pieces(b)
    IN  IF n[1] >= n[2] THEN 1 ELSE IF n[2] > n[1] THEN 2 ELSE None

\* check_game_over: the winner from the counts.
DetermineWinner(b) ==
    LET n == count_pieces(b)
    IN  IF n[1] > n[2] THEN 1 ELSE IF n[2] > n[1] THEN 2 ELSE None

\* run_game_with_callback: the winner from the counts after the loop.
ResultWinner(b) ==
    LET n == count_pieces(b)
    IN  IF n[1] > n[2] THEN 1 ELSE IF n[2] > n[1] THEN 2 ELSE None

\* The value of call while no move has been made in the game.
NoCall == [row |-> 0, col |-> 0, player |-> 0, was |-> 0,
           raised |-> FALSE, via |-> "none"]

\* What board[row, col] held before make_move wrote it (-1 when the
\* index is refused).
Held(b, row, col) ==
    IF NpIndexOk(row) /\ NpIndexOk(col) THEN b[NpIndex(row)][NpIndex(col)]
    ELSE -1

\* The record of a call; via tells which statement of a driver made it.
CallOf(b, row, col, player, via) ==
    [row |-> row, col |-> col, player |-> player, was |-> Held(b, row, col),
     raised |-> make_move_raises(row, col), via |-> via]

\* Variant: the turn is not passed on.
NextPlayer_Same(p) == p

\* current_player = 3 - current_player
NextPlayer(p) == 3 - p

\* The value of result while run_game_with_callback has not returned.
NoResult == [winner |-> None, final_score |-> <<0, 0>>,
             continue_tournament |-> TRUE, returned |-> FALSE]

\* How a called method of an agent ended.  NoOutcome: it has not ended.
NoOutcome == [kind |-> "pending", row |-> -1, col |-> -1, error |-> ""]

\* return (row, col)
Returned(m) == [kind |-> "move", row |-> m[1], col |-> m[2], error |-> ""]

\* return None
ReturnedNone == [kind |-> "None", row |-> -1, col |-> -1, error |-> ""]

\* An exception of class e left the method.
Raised(e) == [kind |-> "raised", row |-> -1, col |-> -1, error |-> e]

----------------------------------------------------------------------------
(* Steps shared by the drivers *)

\* Variant: winner is not in the global statement, so the assignment makes
\* a local and the module's winner stays.
reset_game_KeepWinner ==
    /\ board' = EmptyBoard
    /\ current_player' = 1
    /\ game_over' = FALSE
    /\ winner' = winner
    /\ call' = NoCall
    /\ pre' = pre

\* reset_game(): the board, the turn and the outcome; no move has been made
\* in the new game.
reset_game ==
    /\ board' = EmptyBoard
    /\ current_player' = 1
    /\ game_over' = FALSE
    /\ winner' = None
    /\ call' = NoCall
    /\ pre' = pre

\* check_game_over() on the board b: game_over and winner after the call.
check_game_over(b) ==
    IF is_board_full(b)
    THEN [game_over |-> TRUE, winner |-> DetermineWinner(b)]
    ELSE [game_over |-> game_over, winner |-> winner]

\* The three statements that follow every accepted or substituted move in
\* run_game_loop: make_move(row, col, current_player);
\* current_player = 3 - current_player; check_game_over().  via is
\* "proposal" for the provider's own move, "invalid" for the random move
\* that replaces an invalid proposal, "raised" for the one of the except
\* block.
PlayMove(row, col, via) ==
    /\ board' = make_move(board, row, col, current_player)
    /\ call' = CallOf(board, row, col, current_player, via)
    /\ pre' = pre
    /\ current_player' = NextPlayer(current_player)
    /\ game_over' = check_game_over(board').game_over
    /\ winner' = check_game_over(board').winner

\* What a move provider can hand back as (row, col): any pair of integers,
\* here every cell and one position beyond each side of the grid.
Proposals ==
    Cells \cup {<<-1, 0>>, <<0, -1>>, <<GRID_SIZE, 0>>, <<0, GRID_SIZE>>}

----------------------------------------------------------------------------
(* battle_ui.run_game_loop under run_battle.run_game_with_callback *)

\* run_game_with_callback up to the first iteration of the loop:
\* init_game() and the reset_game() at the top of run_game_loop.
RunGame ==
    /\ driver = "battle_ui" /\ pc = "start"
    /\ reset_game
    /\ pc' = "loop"
    /\ UNCHANGED <<GRID_SIZE, driver, llm_thinking, auto_restart, result>>
    /\ UNCHANGED agentvars
    /\ UNCHANGED <<matchvars, tournamentvars>>

\* pygame.QUIT: run_game_loop returns False, and run_game_with_callback
\* builds its result from the board as it is.
Quit ==
    /\ driver = "battle_ui" /\ pc = "loop"
    /\ result' = [winner |-> ResultWinner(board),
                  final_score |-> count_pieces(board),
                  continue_tournament |-> FALSE,
                  returned |-> TRUE]
    /\ pc' = "returned"
    /\ UNCHANGED <<GRID_SIZE, driver, board, current_player, game_over, winner,
                   llm_thinking, auto_restart, call, pre>>
    /\ UNCHANGED agentvars
    /\ UNCHANGED <<matchvars, tournamentvars>>

\* A click on the restart button: only when game_over and not auto_restart.
RestartClick ==
    /\ driver = "battle_ui" /\ pc = "loop"
    /\ game_over /\ ~auto_restart
    /\ reset_game
    /\ UNCHANGED <<GRID_SIZE, driver, llm_thinking, auto_restart, pc, result>>
    /\ UNCHANGED agentvars
    /\ UNCHANGED <<matchvars, tournamentvars>>

\* Auto-restart once auto_restart_delay has passed since the game ended.
AutoRestart ==
    /\ driver = "battle_ui" /\ pc = "loop"
    /\ game_over /\ auto_restart
    /\ reset_game
    /\ UNCHANGED <<GRID_SIZE, driver, llm_thinking, auto_restart, pc, result>>
    /\ UNCHANGED agentvars
    /\ UNCHANGED <<matchvars, tournamentvars>>

\* Variant: the request hands over the board_state of the previous request
\* instead of taking a new one.
RequestMove_StaleSnapshot ==
    /\ driver = "battle_ui" /\ pc = "loop"
    /\ ~game_over /\ ~llm_thinking
    /\ llm_thinking' = TRUE
    /\ pc' = "await"
    /\ UNCHANGED <<GRID_SIZE, driver, board, current_player, game_over, winner,
                   auto_restart, result, call, pre>>
    /\ UNCHANGED agentvars
    /\ UNCHANGED <<matchvars, tournamentvars>>

\* "Get LLM move if it's time": start_thinking(), get_board_state() and the
\* call of the provider, which is awaited.  board_state is a local variable
\* of run_game_loop: it keeps the dictionary of this request until the next
\* request replaces it.
RequestMove ==
    /\ driver = "battle_ui" /\ pc = "loop"
    /\ ~game_over /\ ~llm_thinking
    /\ llm_thinking' = TRUE
    /\ pc' = "await"
    /\ UNCHANGED <<GRID_SIZE, driver, board, current_player, game_over, winner,
                   auto_restart, result, call, pre>>
    /\ valid_moves' = board_state_valid_moves(board)
    /\ UNCHANGED <<agent, board_type, attempt, outcome>>
    /\ UNCHANGED <<matchvars, tournamentvars>>

\* Variant: an invalid proposal is dropped and nothing is played for it.
ProviderReturn_DropInvalid ==
    /\ driver = "battle_ui" /\ pc = "await"
    /\ \/ \E m \in Proposals :
             /\ is_valid_move(board, m[1], m[2])
             /\ llm_thinking' = FALSE
             /\ PlayMove(m[1], m[2], "proposal")
       \/ /\ \E m \in Proposals : ~is_valid_move(board, m[1], m[2])
          /\ UNCHANGED <<board, current_player, game_over, winner,
                         llm_thinking, call, pre>>
    /\ pc' = "loop"
    /\ UNCHANGED <<GRID_SIZE, driver, auto_restart, result>>
    /\ UNCHANGED agentvars
    /\ UNCHANGED <<matchvars, tournamentvars>>

\* The provider returned (row, col): the try block after the await.  A valid
\* proposal is played; any invalid one is replaced by random.choice of the
\* valid moves (and by nothing when there is none, which leaves
\* llm_thinking set).
ProviderReturn ==
    /\ driver = "battle_ui" /\ pc = "await"
    /\ \/ \E m \in Proposals :
             /\ is_valid_move(board, m[1], m[2])
             /\ llm_thinking' = FALSE
             /\ PlayMove(m[1], m[2], "proposal")
       \/ /\ \E m \in Proposals : ~is_valid_move(board, m[1], m[2])
          /\ IF get_valid_moves(board) # {}
             THEN /\ llm_thinking' = FALSE
                  /\ \E v \in get_valid_moves(board) :
                        PlayMove(v[1], v[2], "invalid")
             ELSE UNCHANGED <<board, current_player, game_over, winner,
                              llm_thinking, call, pre>>
    /\ pc' = "loop"
    /\ UNCHANGED <<GRID_SIZE, driver, auto_restart, result>>
    /\ UNCHANGED agentvars
    /\ UNCHANGED <<matchvars, tournamentvars>>

\* The provider raised (or what it returned could not be unpacked or
\* indexed): the except block.
ProviderRaise ==
    /\ driver = "battle_ui" /\ pc = "await"
    /\ llm_thinking' = FALSE
    /\ IF get_valid_moves(board) # {}
       THEN \E v \in get_valid_moves(board) : PlayMove(v[1], v[2], "raised")
       ELSE UNCHANGED <<board, current_player, game_over, winner, call, pre>>
    /\ pc' = "loop"
    /\ UNCHANGED <<GRID_SIZE, driver, auto_restart, result>>
    /\ UNCHANGED agentvars
    /\ UNCHANGED <<matchvars, tournamentvars>>

----------------------------------------------------------------------------
(* game.main: one iteration handles an event and ends with the game-over   *)
(* test.                                                                   *)

\* "Check for game over" at the end of an iteration of game.main, on the
\* board b with the flags as the event handling left them.
GameOverTest(b, over, win) ==
    IF ~over /\ is_board_full(b)
    THEN [game_over |-> TRUE, winner |-> DetermineWinner(b)]
    ELSE [game_over |-> over, winner |-> win]

\* A left click on the cell (row, col) that get_cell_from_mouse found.
GameClick ==
    /\ driver = "game" /\ pc = "loop"
    /\ ~game_over
    /\ \E m \in Cells :
          /\ is_valid_move(board, m[1], m[2])
          /\ board' = make_move(board, m[1], m[2], current_player)
          /\ call' = CallOf(board, m[1], m[2], current_player, "click")
          /\ pre' = pre
          /\ current_player' = NextPlayer(current_player)
          /\ game_over' = GameOverTest(board', game_over, winner).game_over
          /\ winner' = GameOverTest(board', game_over, winner).winner
    /\ UNCHANGED <<GRID_SIZE, driver, llm_thinking, auto_restart, pc, result>>
    /\ UNCHANGED agentvars
    /\ UNCHANGED <<matchvars, tournamentvars>>

\* A left click on the restart button when the game is over.
GameRestartClick ==
    /\ driver = "game" /\ pc = "loop"
    /\ game_over
    /\ reset_game
    /\ UNCHANGED <<GRID_SIZE, driver, llm_thinking, auto_restart, pc, result>>
    /\ UNCHANGED agentvars
    /\ UNCHANGED <<matchvars, tournamentvars>>

\* pygame.QUIT: the loop ends, pygame.quit() and sys.exit().
GameQuit ==
    /\ driver = "game" /\ pc = "loop"
    /\ pc' = "exited"
    /\ UNCHANGED <<GRID_SIZE, driver, board, current_player, game_over, winner,
                   llm_thinking, auto_restart, result, call, pre>>
    /\ UNCHANGED agentvars
    /\ UNCHANGED <<matchvars, tournamentvars>>

----------------------------------------------------------------------------
(* The specification of the drivers *)

Init ==
    /\ GRID_SIZE \in 1 .. MaxGrid
    /\ driver \in {"battle_ui", "game"}
    /\ board = EmptyBoard
    /\ current_player = 1
    /\ game_over = FALSE
    /\ winner = None
    /\ llm_thinking = FALSE
    /\ auto_restart \in IF driver = "battle_ui" THEN BOOLEAN ELSE {FALSE}
    /\ pc = IF driver = "battle_ui" THEN "start" ELSE "loop"
    /\ result = NoResult
    /\ call = NoCall
    /\ pre = EmptyBoard
    /\ agent = "none"
    /\ board_type = "list"
    /\ valid_moves = <<>>
    /\ attempt = 0
    /\ outcome = NoOutcome
    /\ MatchIdle /\ TournamentIdle

Next ==
    \/ RunGame
    \/ Quit
    \/ RestartClick
    \/ AutoRestart
    \/ RequestMove
    \/ ProviderReturn
    \/ ProviderRaise
    \/ GameClick
    \/ GameRestartClick
    \/ GameQuit

Spec == Init /\ [][Next]_vars

----------------------------------------------------------------------------
(* make_move as a function: any board, any arguments *)

AllBoards == [Rows -> [Rows -> 0 .. 2]]

MoveInit ==
    /\ GRID_SIZE \in 1 .. MaxGrid
    /\ driver = "call"
    /\ board \in AllBoards
    /\ current_player = 1
    /\ game_over = FALSE
    /\ winner = None
    /\ llm_thinking = FALSE
    /\ auto_restart = FALSE
    /\ pc = "call"
    /\ result = NoResult
    /\ call = NoCall
    /\ pre = board
    /\ agent = "none"
    /\ board_type = "list"
    /\ valid_moves = <<>>
    /\ attempt = 0
    /\ outcome = NoOutcome
    /\ MatchIdle /\ TournamentIdle

\* The (row, col) a caller can pass: anything from one below to one above
\* the grid on either axis.
Arguments == (-1 .. GRID_SIZE) \X (-1 .. GRID_SIZE)

\* One call make_move(row, col, player) with arbitrary arguments.
MakeMoveCall ==
    /\ driver = "call" /\ pc = "call"
    /\ \E m \in Arguments, p \in Players :
          /\ board' = make_move(board, m[1], m[2], p)
          /\ call' = CallOf(board, m[1], m[2], p, "direct")
          /\ pre' = board
    /\ pc' = "called"
    /\ UNCHANGED <<GRID_SIZE, driver, current_player, game_over, winner,
                   llm_thinking, auto_restart, result>>
    /\ UNCHANGED agentvars
    /\ UNCHANGED <<matchvars, tournamentvars>>

MoveNext == MakeMoveCall

MoveSpec == MoveInit /\ [][MoveNext]_vars

----------------------------------------------------------------------------
(* The outcome as a function of the board: check_game_over() and the tail  *)
(* of run_game_with_callback on any board, whatever winner held before.    *)

OutcomeInit ==
    /\ GRID_SIZE \in 1 .. MaxGrid
    /\ driver = "outcome"
    /\ board \in AllBoards
    /\ current_player = 1
    /\ game_over = FALSE
    /\ winner \in {None, 1, 2}
    /\ llm_thinking = FALSE
    /\ auto_restart = FALSE
    /\ pc = "board"
    /\ result = NoResult
    /\ call = NoCall
    /\ pre = board
    /\ agent = "none"
    /\ board_type = "list"
    /\ valid_moves = <<>>
    /\ attempt = 0
    /\ outcome = NoOutcome
    /\ MatchIdle /\ TournamentIdle

\* One call of check_game_over().
CheckGameOverCall ==
    /\ driver = "outcome" /\ pc = "board"
    /\ game_over' = check_game_over(board).game_over
    /\ winner' = check_game_over(board).winner
    /\ pc' = "checked"
    /\ UNCHANGED <<GRID_SIZE, driver, board, current_player, llm_thinking,
                   auto_restart, result, call, pre>>
    /\ UNCHANGED agentvars
    /\ UNCHANGED <<matchvars, tournamentvars>>

\* The statements of run_game_with_callback after run_game_loop returned.
ReportResult ==
    /\ driver = "outcome" /\ pc = "checked"
    /\ result' = [winner |-> ResultWinner(board),
                  final_score |-> count_pieces(board),
                  continue_tournament |-> FALSE,
                  returned |-> TRUE]
    /\ pc' = "returned"
    /\ UNCHANGED <<GRID_SIZE, driver, board, current_player, game_over, winner,
                   llm_thinking, auto_restart, call, pre>>
    /\ UNCHANGED agentvars
    /\ UNCHANGED <<matchvars, tournamentvars>>

OutcomeNext == CheckGameOverCall \/ ReportResult

OutcomeSpec == OutcomeInit /\ [][OutcomeNext]_vars

\* The drivers as the event loop schedules them: an iteration that can call
\* the provider does, a provider that was called answers (returns or
\* raises), and the restart delay runs out.  What the user does (closing the
\* window, clicking) is not promised.
FairSpec ==
    /\ Init /\ [][Next]_vars
    /\ WF_vars(RunGame)
    /\ WF_vars(RequestMove)
    /\ WF_vars(ProviderReturn \/ ProviderRaise)
    /\ WF_vars(AutoRestart)

----------------------------------------------------------------------------
(* The agents (llm_battle/agents): the fallback selectors of GroqAgent and *)
(* GoogleAgent, and get_move of the three agents.  The selectors name the  *)
(* corners and edges of the 8 x 8 board by number, so the agents are       *)
(* modelled on the program's own grid.                                     *)

\* GRID_SIZE = 8
ProgramGrid == 8

\* max_retries: int = 3, the default with which run_battle builds agents.
max_retries == 3

\* The elements of a list.
Range(s) == {s[i] : i \in 1 .. Len(s)}

\* Variant: only right and down are looked at.
capture_directions_RightDown == <<<<0, 1>>, <<1, 0>>>>

\* directions = [(0, 1), (1, 0), (0, -1), (-1, 0)]  # right, down, left, up
capture_directions == <<<<0, 1>>, <<1, 0>>, <<0, -1>>, <<-1, 0>>>>

\* Variant: the player's own neighbours are counted.
count_potential_captures_Own(b, row, col, player) ==
    Cardinality({i \in 1 .. Len(capture_directions) :
        LET r == row + capture_directions[i][1]
            c == col + capture_directions[i][2]
        IN  InRange(r, c) /\ b[r][c] = player})

\* _count_potential_captures(board, row, col, player)
count_potential_captures(b, row, col, player) ==
    Cardinality({i \in 1 .. Len(capture_directions) :
        LET r == row + capture_directions[i][1]
            c == col + capture_directions[i][2]
        IN  InRange(r, c) /\ b[r][c] = 3 - player})

\* Variant: a corner is worth 90.
position_score_LowCorner(r, c) ==
    IF <<r, c>> \in {<<0, 0>>, <<0, 7>>, <<7, 0>>, <<7, 7>>} THEN 90
    ELSE IF <<r, c>> \in {<<0, 1>>, <<1, 0>>, <<1, 1>>, <<0, 6>>, <<1, 6>>,
                          <<1, 7>>, <<6, 0>>, <<6, 1>>, <<7, 1>>, <<6, 6>>,
                          <<6, 7>>, <<7, 6>>} THEN -50
    ELSE IF r = 0 \/ r = 7 \/ c = 0 \/ c = 7 THEN 30
    ELSE 0

\* Steps 1 to 3 of the scoring: the if / elif / elif on the position.
position_score(r, c) ==
    IF <<r, c>> \in {<<0, 0>>, <<0, 7>>, <<7, 0>>, <<7, 7>>} THEN 100
    ELSE IF <<r, c>> \in {<<0, 1>>, <<1, 0>>, <<1, 1>>, <<0, 6>>, <<1, 6>>,
                          <<1, 7>>, <<6, 0>>, <<6, 1>>, <<7, 1>>, <<6, 6>>,
                          <<6, 7>>, <<7, 6>>} THEN -50
    ELSE IF r = 0 \/ r = 7 \/ c = 0 \/ c = 7 THEN 30
    ELSE 0

\* empty_count = sum(row.count(0) for row in board)
empty_count(b) == Cardinality({m \in Cells : b[m[1]][m[2]] = 0})

\* abs(x - 3.5), doubled to stay in the integers.
abs_twice(x) == IF 2 * x - 7 < 0 THEN 7 - 2 * x ELSE 2 * x - 7

\* center_distance = abs(r - 3.5) + abs(c - 3.5), doubled.
center_distance_twice(r, c) == abs_twice(r) + abs_twice(c)

\* Step 5 of the scoring: the centre in the early game
\* (center_distance < 2 is center_distance_twice < 4).
center_score(b, r, c) ==
    IF empty_count(b) > 40 /\ center_distance_twice(r, c) < 4 THEN 15 ELSE 0

\* move_scores[(r, c)]
move_score(b, r, c, player) ==
    position_score(r, c) + count_potential_captures(b, r, c, player) * 20
        + center_score(b, r, c)

\* best_score = max(move_scores.values());
\* best_moves = [move for move, score in move_scores.items()
\*               if score == best_score]
best_moves(b, moves, player) ==
    {m \in Range(moves) :
        \A n \in Range(moves) :
            move_score(b, n[1], n[2], player) <= move_score(b, m[1], m[2], player)}

\* The body of both selectors for a non-empty list: row.count(0) exists for
\* the rows of a list of lists and not for the rows of an ndarray, where the
\* first pass of the loop raises AttributeError; otherwise
\* random.choice(best_moves).
scored_choice(b, type, moves, player) ==
    IF type = "ndarray" THEN {Raised("AttributeError")}
    ELSE {Returned(m) : m \in best_moves(b, moves, player)}

\* GroqAgent._get_strategic_fallback_move(board, valid_moves,
\* current_player): the ways it can end.
get_strategic_fallback_move(b, type, moves, player) ==
    IF moves = <<>> THEN {ReturnedNone}
    ELSE scored_choice(b, type, moves, player)

\* GoogleAgent._get_best_strategic_move(board, valid_moves, current_player):
\* the ways it can end.  It has no test of valid_moves; max() of no scores
\* raises ValueError.
get_best_strategic_move(b, type, moves, player) ==
    IF moves = <<>> THEN {Raised("ValueError")}
    ELSE scored_choice(b, type, moves, player)

\* The selector of the agent a.
fallback_selector(a, b, type, moves, player) ==
    IF a = "groq" THEN get_strategic_fallback_move(b, type, moves, player)
    ELSE get_best_strategic_move(b, type, moves, player)

\* _parse_response for an answer that holds no legal move (no JSON, JSON
\* that does not parse, a row and col outside valid_moves, no coordinates in
\* the text).  GroqAgent passes on the board of the request; GoogleAgent
\* passes np.array(...) of its history, or np.zeros((8, 8)), both in the
\* try block and in its except block.
parse_response_no_legal_move(a, b, moves, player) ==
    IF a = "groq" THEN get_strategic_fallback_move(b, "list", moves, player)
    ELSE get_best_strategic_move(b, "ndarray", moves, player)

\* The boards handed to the agents: the last FilledCells cells (row by row)
\* are owned, in a chequered pattern, and the cells of Window hold anything.
FilledCells == {0, 20, 64}

Window == {<<2, 3>>, <<3, 2>>, <<3, 4>>, <<4, 3>>}

\* The cells from which valid_moves is taken.
Candidates == {<<0, 0>>, <<0, 3>>, <<1, 1>>, <<2, 2>>, <<3, 3>>}

AgentBoard(n, w) ==
    [r \in Rows |-> [c \in Rows |->
        IF <<r, c>> \in Window /\ w[<<r, c>>] # 0 THEN w[<<r, c>>]
        ELSE IF r * GRID_SIZE + c >= GRID_SIZE * GRID_SIZE - n
             THEN 1 + ((r + c) % 2)
             ELSE 0]]

\* board_state as a caller builds it: a board, the player to move and a
\* list of Empty cells of that board in the order of get_valid_moves.
AgentInit ==
    /\ GRID_SIZE = ProgramGrid
    /\ driver = "agent"
    /\ \E n \in FilledCells, w \in [Window -> 0 .. 2] : board = AgentBoard(n, w)
    /\ current_player \in Players
    /\ game_over = FALSE
    /\ winner = None
    /\ llm_thinking = FALSE
    /\ auto_restart = FALSE
    /\ pc = "input"
    /\ result = NoResult
    /\ call = NoCall
    /\ pre = board
    /\ agent = "none"
    /\ board_type = "list"
    /\ \E s \in SUBSET Candidates :
          valid_moves = SelectSeq(board_state_valid_moves(board),
                                  LAMBDA m : m \in s)
    /\ attempt = 0
    /\ outcome = NoOutcome
    /\ MatchIdle /\ TournamentIdle

\* One call of a fallback selector on the board, as a list of lists or as an
\* ndarray (the type BaseAgent.get_move documents, and the one
\* GoogleAgent._parse_response passes).
SelectorCall ==
    /\ driver = "agent" /\ pc = "input"
    /\ \E a \in {"groq", "google"}, type \in {"list", "ndarray"} :
          /\ agent' = a
          /\ board_type' = type
          /\ outcome' \in fallback_selector(a, board, type, valid_moves,
                                            current_player)
    /\ pc' = "selected"
    /\ UNCHANGED <<GRID_SIZE, driver, board, current_player, game_over, winner,
                   llm_thinking, auto_restart, result, call, pre,
                   valid_moves, attempt>>
    /\ UNCHANGED <<matchvars, tournamentvars>>

\* get_move(board_state) up to its retry loop: the test of valid_moves, and
\* for RandomAgent the whole method.  range(max_retries) of no attempts
\* falls through the loop and returns None.
GetMoveCall ==
    /\ driver = "agent" /\ pc = "input"
    /\ \E a \in {"random", "groq", "google"} :
          /\ agent' = a
          /\ IF valid_moves = <<>>
             THEN outcome' = Raised("ValueError") /\ pc' = "done"
             ELSE IF a = "random"
             THEN outcome' \in {Returned(m) : m \in Range(valid_moves)}
                  /\ pc' = "done"
             ELSE IF max_retries = 0
             THEN outcome' = ReturnedNone /\ pc' = "done"
             ELSE outcome' = NoOutcome /\ pc' = "attempt"
    /\ attempt' = 0
    /\ UNCHANGED <<GRID_SIZE, driver, board, current_player, game_over, winner,
                   llm_thinking, auto_restart, result, call, pre,
                   board_type, valid_moves>>
    /\ UNCHANGED <<matchvars, tournamentvars>>

\* Variant: the error of the last attempt leaves get_move.
AttemptFailed_Reraise ==
    IF attempt = max_retries - 1
    THEN /\ outcome' = Raised("Exception")
         /\ pc' = "fallback"
         /\ attempt' = attempt
    ELSE /\ outcome' = outcome
         /\ pc' = "attempt"
         /\ attempt' = attempt + 1

\* The except block of the retry loop: after the last attempt get_move
\* returns what the fallback selector gives on the board of the request
\* (pc "fallback": the return statement of the except block), otherwise a
\* backoff and the next attempt.
AttemptFailed ==
    IF attempt = max_retries - 1
    THEN /\ outcome' \in fallback_selector(agent, board, "list", valid_moves,
                                           current_player)
         /\ pc' = "fallback"
         /\ attempt' = attempt
    ELSE /\ outcome' = outcome
         /\ pc' = "attempt"
         /\ attempt' = attempt + 1

\* Variant: _parse_response returns the move that the answer names without
\* looking it up in valid_moves.
ApiAttempt_Unchecked ==
    /\ driver = "agent" /\ pc = "attempt"
    /\ \/ /\ outcome' \in {Returned(m) : m \in Candidates}
          /\ pc' = "done"
          /\ attempt' = attempt
       \/ AttemptFailed
    /\ UNCHANGED <<GRID_SIZE, driver, board, current_player, game_over, winner,
                   llm_thinking, auto_restart, result, call, pre,
                   agent, board_type, valid_moves>>
    /\ UNCHANGED <<matchvars, tournamentvars>>

\* One pass of the retry loop of GroqAgent.get_move / GoogleAgent.get_move:
\* the API call and _parse_response.
ApiAttempt ==
    /\ driver = "agent" /\ pc = "attempt"
    /\ \/ \* the answer names a legal move
          /\ outcome' \in {Returned(m) : m \in Range(valid_moves)}
          /\ pc' = "done"
          /\ attempt' = attempt
       \/ \* the answer names no legal move and _parse_response returns
          /\ \E o \in parse_response_no_legal_move(agent, board, valid_moves,
                                                   current_player) :
                /\ o.kind # "raised"
                /\ outcome' = o
          /\ pc' = "done"
          /\ attempt' = attempt
       \/ \* the answer names no legal move and _parse_response raises
          /\ \E o \in parse_response_no_legal_move(agent, board, valid_moves,
                                                   current_player) :
                o.kind = "raised"
          /\ AttemptFailed
       \/ \* the API call raises
          AttemptFailed
    /\ UNCHANGED <<GRID_SIZE, driver, board, current_player, game_over, winner,
                   llm_thinking, auto_restart, result, call, pre,
                   agent, board_type, valid_moves>>
    /\ UNCHANGED <<matchvars, tournamentvars>>

AgentNext == SelectorCall \/ GetMoveCall \/ ApiAttempt

AgentSpec == AgentInit /\ [][AgentNext]_vars

----------------------------------------------------------------------------
(* Vocabulary of the properties *)

\* No cell of b is Empty.
NoEmptyCell(b) == \A r \in Rows, c \in Rows : b[r][c] \in Players

EmptyCells(b) == {m \in Cells : b[m[1]][m[2]] = 0}

\* The in-range orthogonal neighbours of (r, c).
Orthogonal(r, c) ==
    {m \in Cells : \/ m[1] = r /\ (m[2] = c - 1 \/ m[2] = c + 1)
                   \/ m[2] = c /\ (m[1] = r - 1 \/ m[1] = r + 1)}

\* The in-range diagonal neighbours of (r, c).
Diagonal(r, c) ==
    {m \in Cells : (m[1] = r - 1 \/ m[1] = r + 1) /\ (m[2] = c - 1 \/ m[2] = c + 1)}

\* make_move has been called on a valid move: in range, on an Empty cell.
ValidCall ==
    /\ call.via # "none"
    /\ InRange(call.row, call.col)
    /\ call.was = 0

\* The neighbours of the last call's cell that the opponent owned before it.
EnemyNeighbours ==
    {m \in Orthogonal(call.row, call.col) : pre[m[1]][m[2]] = 3 - call.player}

\* The cells other than the placed one whose content the last call changed.
Changed ==
    {m \in Cells : board[m[1]][m[2]] # pre[m[1]][m[2]]} \ {<<call.row, call.col>>}

\* w is the outcome that the counts of the board b give.
WinnerMatchesCounts(w, b) ==
    /\ w = 1 <=> CountOf(b, 1) > CountOf(b, 2)
    /\ w = 2 <=> CountOf(b, 2) > CountOf(b, 1)
    /\ w = None <=> (CountOf(b, 1) = CountOf(b, 2) /\
                     2 * CountOf(b, 1) = GRID_SIZE * GRID_SIZE)

\* This step applied a move.
MoveApplied == call'.via # "none" /\ board' # board

----------------------------------------------------------------------------
(* The properties *)

\* C1: in every state of a game (reset_game followed by any moves of the
\* drivers) every cell holds 0, 1 or 2, and the two counts of count_pieces
\* plus the number of Empty cells make GRID_SIZE * GRID_SIZE (64).
C1_CellsAndCounts ==
    /\ \A m \in Cells : board[m[1]][m[2]] \in {0, 1, 2}
    /\ count_pieces(board)[1] + count_pieces(board)[2]
         + Cardinality(EmptyCells(board)) = GRID_SIZE * GRID_SIZE

\* A game in which a capture has happened and cells of all three kinds are
\* on the board.
C1_Witness ==
    /\ call.via # "none"
    /\ GRID_SIZE >= 3
    /\ CountOf(board, 1) >= CountOf(board, 2) + 3
    /\ CountOf(board, 2) >= 1
    /\ EmptyCells(board) # {}

\* C2: a valid move (r, c) by p with k orthogonal neighbours owned by 3 - p
\* flips exactly those k cells to p and changes no other cell; p's count
\* rises by k + 1 and the opponent's falls by k.
C2_CapturesExactlyEnemyNeighbours ==
    ValidCall =>
        LET p == call.player
            k == Cardinality(EnemyNeighbours)
        IN  /\ ~call.raised
            /\ board[call.row][call.col] = p
            /\ Changed = EnemyNeighbours
            /\ \A m \in EnemyNeighbours : board[m[1]][m[2]] = p
            /\ CountOf(board, p) = CountOf(pre, p) + k + 1
            /\ CountOf(board, 3 - p) = CountOf(pre, 3 - p) - k

\* k = 4: the four neighbours of an inner cell were the opponent's only
\* pieces; the counts are 5 and 0 afterwards.
C2_Witness ==
    /\ ValidCall
    /\ Cardinality(EnemyNeighbours) = 4
    /\ CountOf(board, call.player) = 5
    /\ CountOf(board, 3 - call.player) = 0

\* C3: a valid move leaves unchanged every cell other than the placed one
\* and its orthogonal neighbours that the opponent owned: diagonal
\* neighbours, cells further away, Empty neighbours and own neighbours stay.
C3_FrameOfMakeMove ==
    ValidCall =>
        \A m \in Cells :
            (/\ m # <<call.row, call.col>>
             /\ ~(/\ m \in Orthogonal(call.row, call.col)
                  /\ pre[m[1]][m[2]] = 3 - call.player))
            => board[m[1]][m[2]] = pre[m[1]][m[2]]

\* A valid move with a captured neighbour, an opponent's piece on a
\* diagonal, an opponent's piece two steps away behind the captured one and
\* an Empty neighbour: the last three are as before.
C3_Witness ==
    /\ ValidCall
    /\ \E d \in Diagonal(call.row, call.col) :
          /\ pre[d[1]][d[2]] = 3 - call.player
          /\ board[d[1]][d[2]] = 3 - call.player
    /\ \E n \in EnemyNeighbours :
          \E f \in Orthogonal(n[1], n[2]) :
              /\ f # <<call.row, call.col>>
              /\ f \notin Orthogonal(call.row, call.col)
              /\ f \notin Diagonal(call.row, call.col)
              /\ pre[f[1]][f[2]] = 3 - call.player
              /\ board[f[1]][f[2]] = 3 - call.player
    /\ \E e \in Orthogonal(call.row, call.col) :
          pre[e[1]][e[2]] = 0 /\ board[e[1]][e[2]] = 0

\* C4: every call of make_move by a driver (run_game_loop, whatever the
\* provider returned or raised, and the click handler of game.main) places
\* on a cell in range that was Empty just before the call.
C4_PlacementOnEmptyInRange ==
    (driver \in {"battle_ui", "game"} /\ call.via # "none") =>
        /\ InRange(call.row, call.col)
        /\ call.was = 0
        /\ ~call.raised

\* The move that replaced an invalid proposal, on a board that already has
\* pieces.
C4_Witness ==
    /\ call.via # "none"
    /\ call.via = "invalid"
    /\ CountOf(board, 1) + CountOf(board, 2) >= 3

\* C5: within a game the first applied move is player 1's, the mover of
\* each further applied move is the other player than the one before, also
\* for a substituted move, and current_player changes only with an applied
\* move (or the start of a new game).
C5_StrictAlternation ==
    [][ /\ MoveApplied =>
              /\ call'.player = IF call.via = "none" THEN 1 ELSE 3 - call.player
              /\ call'.player = current_player
              /\ current_player' = 3 - current_player
        /\ current_player' # current_player => (MoveApplied \/ call'.via = "none")
      ]_vars

\* Player 2 has just made a move that replaced a failed request, after
\* player 1's move.
C5_Witness ==
    /\ call.via # "none"
    /\ call.via = "raised"
    /\ call.player = 2
    /\ current_player = 1

\* C6: at every iteration boundary of run_game_loop game_over holds exactly
\* when the board has no Empty cell, and no move is being requested on a
\* full board.
C6_GameOverIffFull ==
    driver = "battle_ui" =>
        /\ pc \in {"loop", "returned"} => (game_over <=> NoEmptyCell(board))
        /\ game_over => NoEmptyCell(board)
        /\ pc = "await" => (~game_over /\ ~NoEmptyCell(board))

\* The loop is at an iteration boundary with a full board and game_over set.
C6_Witness ==
    /\ driver = "battle_ui" /\ pc = "loop"
    /\ GRID_SIZE >= 2
    /\ game_over /\ NoEmptyCell(board)

\* C7 as claimed: an outcome is reported only for a full board, by
\* check_game_over (winner) and by run_game_with_callback (the result's
\* winner).
C7_OutcomeOnlyOnFullBoard ==
    /\ winner \in Players => NoEmptyCell(board)
    /\ (result.returned /\ result.winner \in Players) => NoEmptyCell(board)

\* C8: on a full board the outcome is player 1 iff it has more cells,
\* player 2 iff it has more, a tie iff each has half the cells, and the
\* result of run_game_with_callback names the same winner as
\* check_game_over.
C8_WinnerFromCounts ==
    NoEmptyCell(board) =>
        /\ (game_over \/ pc = "checked") => WinnerMatchesCounts(winner, board)
        /\ result.returned =>
              /\ WinnerMatchesCounts(result.winner, board)
              /\ result.winner = winner

\* A finished game that is a tie, reported as such by both.
C8_Witness ==
    /\ result.returned /\ game_over
    /\ NoEmptyCell(board)
    /\ CountOf(board, 1) = CountOf(board, 2)
    /\ result.winner = None /\ winner = None

\* C9 as claimed: once the board is full, run_game_loop returns to its
\* caller.
C9_LoopReturnsWhenFull ==
    (driver = "battle_ui" /\ pc = "loop" /\ NoEmptyCell(board))
        ~> (pc = "returned")

\* C10 as claimed: make_move on a move that is out of range or on a cell
\* that is not Empty signals an error and leaves the board as it was.
C10_InvalidCallRejected ==
    (call.via # "none" /\ ~(InRange(call.row, call.col) /\ call.was = 0)) =>
        (call.raised /\ board = pre)

----------------------------------------------------------------------------
(* The properties of the fallback selectors and of get_move *)

\* The move that the called method returned.
Chosen == <<outcome.row, outcome.col>>

Magnitude(x) == IF x < 0 THEN -x ELSE x

\* m is one of the four corners of the 8 x 8 board.
IsCorner(m) == m[1] \in {0, 7} /\ m[2] \in {0, 7}

\* m is not a corner and touches one, by a side or diagonally.
NextToCorner(m) ==
    /\ ~IsCorner(m)
    /\ \E k \in {0, 7} \X {0, 7} :
          Magnitude(m[1] - k[1]) <= 1 /\ Magnitude(m[2] - k[2]) <= 1

\* The score that the scoring policy gives the move m of player p on b.
SelectorScore(b, m, p) ==
    (IF IsCorner(m) THEN 100
     ELSE IF NextToCorner(m) THEN -50
     ELSE IF m[1] \in {0, 7} \/ m[2] \in {0, 7} THEN 30
     ELSE 0)
    + 20 * Cardinality({n \in Orthogonal(m[1], m[2]) : b[n[1]][n[2]] = 3 - p})
    + (IF /\ Cardinality(EmptyCells(b)) > 40
          /\ Magnitude(2 * m[1] - 7) + Magnitude(2 * m[2] - 7) < 4
       THEN 15 ELSE 0)

\* C11 as claimed: called with a board, a player and a non-empty
\* valid_moves, either fallback selector returns an element of valid_moves.
C11_SelectorReturnsValidMove ==
    (pc = "selected" /\ valid_moves # <<>>) =>
        (outcome.kind = "move" /\ Chosen \in Range(valid_moves))

C13_EmptyListIsAnError ==
    (pc \in {"selected", "done"} /\ valid_moves = <<>>) =>
        outcome.kind = "raised"

----------------------------------------------------------------------------
(* The properties of run_game_loop when the provider fails *)

\* This step ends a request of run_game_loop without playing a move that
\* the provider proposed: the provider returned an illegal move or raised.
ProviderFailed ==
    /\ driver = "battle_ui" /\ pc = "await"
    /\ ~(call'.via = "proposal" /\ call' # call)

\* The cells that this step took from Empty to owned.
NewlyOwned == {m \in Cells : board[m[1]][m[2]] = 0 /\ board'[m[1]][m[2]] # 0}

\* C15: in run_game_loop, when the board is not full and the provider
\* returns an illegal move or raises, that same step applies exactly one
\* valid move for the current player (one Empty cell becomes the player's,
\* by a make_move call for that cell), passes the turn to the other player,
\* clears llm_thinking and leaves the loop running.
C15_FailureIsNotFatal ==
    [][(ProviderFailed /\ ~NoEmptyCell(board)) =>
          /\ pc' = "loop"
          /\ \E m \in EmptyCells(board) :
                /\ NewlyOwned = {m}
                /\ board'[m[1]][m[2]] = current_player
                /\ call'.row = m[1] /\ call'.col = m[2]
                /\ call'.player = current_player /\ ~call'.raised
          /\ current_player' = 3 - current_player
          /\ llm_thinking' = FALSE]_vars

\* A move that replaced an illegal proposal has been played on a board that
\* already held pieces; the turn has passed and the loop runs on.
C15_Witness ==
    /\ driver = "battle_ui" /\ pc = "loop"
    /\ call.via = "invalid"
    /\ board[call.row][call.col] = call.player
    /\ current_player = 3 - call.player
    /\ ~llm_thinking
    /\ CountOf(board, 1) + CountOf(board, 2) >= 3

\* C16 as claimed: the move that run_game_loop plays in place of an illegal
\* proposal or of a provider that raised is one the fallback selector
\* chooses: its score is maximal among the valid moves of the board.
C16_SubstituteIsSelectorChoice ==
    [][(/\ driver = "battle_ui" /\ pc = "await"
        /\ call'.via \in {"invalid", "raised"} /\ call' # call) =>
          <<call'.row, call'.col>>
              \in best_moves(board, board_state_valid_moves(board),
                             current_player)]_vars

----------------------------------------------------------------------------
(* The properties of the board engine, continued *)

\* (r1, c1) comes before (r2, c2) when the grid is read row by row.
RowMajorBefore(m, n) == m[1] < n[1] \/ (m[1] = n[1] /\ m[2] < n[2])

\* C17: is_valid_move(row, col) is true exactly when 0 <= row < GRID_SIZE,
\* 0 <= col < GRID_SIZE and the cell is Empty; the list of
\* get_valid_moves() holds exactly the Empty cells, each once, in row-major
\* order; it is empty exactly when the board is full; and a second call on
\* the same board gives the list that the first gave.
C17_ValidMoves ==
    LET L == board_state_valid_moves(board)
    IN  /\ \A m \in Arguments :
              is_valid_move(board, m[1], m[2]) <=>
                  (/\ 0 <= m[1] /\ m[1] < GRID_SIZE
                   /\ 0 <= m[2] /\ m[2] < GRID_SIZE
                   /\ board[m[1]][m[2]] = 0)
        /\ {L[i] : i \in 1 .. Len(L)} = EmptyCells(board)
        /\ Len(L) = Cardinality(EmptyCells(board))
        /\ \A i \in 1 .. Len(L), j \in 1 .. Len(L) :
              i < j => RowMajorBefore(L[i], L[j])
        /\ (L = <<>>) <=> NoEmptyCell(board)
        /\ get_valid_moves(board) = EmptyCells(board)
        /\ (driver = "battle_ui" /\ pc = "await") => valid_moves = L

\* run_game_loop asked for a move on a 3 x 3 board with three Empty cells,
\* whose row-major order differs from their column-major order.
C17_Witness ==
    /\ driver = "battle_ui" /\ pc = "await"
    /\ GRID_SIZE = 3
    /\ valid_moves = <<<<0, 2>>, <<1, 0>>, <<2, 1>>>>

\* The four directions of make_move in the order that the permutation f of
\* 1 .. 4 gives them.
Reordered(f) == [i \in 1 .. Len(directions) |-> directions[f[i]]]

\* What make_move(row, col, p) on the board b leaves when every neighbour is
\* judged on b itself, the board before the move, and all flips are made at
\* once.
Simultaneous(b, row, col, p) ==
    [r \in Rows |-> [c \in Rows |->
        IF <<r, c>> = <<NpIndex(row), NpIndex(col)>> THEN p
        ELSE IF /\ \E i \in 1 .. Len(directions) :
                      <<r, c>> = <<row + directions[i][1], col + directions[i][2]>>
                /\ b[r][c] # 0 /\ b[r][c] # p
             THEN p
             ELSE b[r][c]]]

\* C18: the board that make_move leaves does not depend on the order of
\* its directions: for each of the 24 orders, flipping in place one
\* direction after the other gives the board that make_move gives, and that
\* board is the one obtained by judging all four neighbours on the board
\* before the move and flipping them at once.
C18_DirectionOrderIrrelevant ==
    (call.via = "direct" /\ ~call.raised) =>
        /\ board = Simultaneous(pre, call.row, call.col, call.player)
        /\ \A f \in Permutations(1 .. Len(directions)) :
              make_move_in(Reordered(f), pre, call.row, call.col, call.player)
                  = board

\* A valid move in the middle of a 3 x 3 board that captured in three
\* directions and found its own piece in the fourth.
C18_Witness ==
    /\ call.via = "direct" /\ ValidCall
    /\ GRID_SIZE = 3 /\ call.row = 1 /\ call.col = 1
    /\ Cardinality(EnemyNeighbours) = 3
    /\ Changed = EnemyNeighbours
    /\ \E m \in Orthogonal(1, 1) : pre[m[1]][m[2]] = call.player

\* The number of cells of b that are not Empty.
Occupied(b) == Cardinality({m \in Cells : b[m[1]][m[2]] # 0})

\* C19: a call of make_move never lowers the number of occupied cells and
\* never raises it by more than 1; a valid move raises it by exactly 1; a
\* capture changes the owner of a cell and nothing else, so every cell
\* other than the placed one is Empty after the call exactly if it was
\* before, and no cell goes from owned to Empty.
C19_OccupiedGrowsByOne ==
    call.via = "direct" =>
        /\ Occupied(board) - Occupied(pre) \in {0, 1}
        /\ ValidCall => Occupied(board) = Occupied(pre) + 1
        /\ \A m \in Cells : pre[m[1]][m[2]] # 0 => board[m[1]][m[2]] # 0
        /\ \A m \in Cells :
              (~call.raised /\ m # <<NpIndex(call.row), NpIndex(call.col)>>) =>
                  (pre[m[1]][m[2]] = 0 <=> board[m[1]][m[2]] = 0)

\* A valid move that captured two pieces: the opponent has two cells fewer,
\* the mover three more, and one more cell is occupied.
C19_Witness ==
    /\ call.via = "direct" /\ ValidCall
    /\ Occupied(board) = Occupied(pre) + 1
    /\ CountOf(board, 3 - call.player) = CountOf(pre, 3 - call.player) - 2
    /\ CountOf(board, call.player) = CountOf(pre, call.player) + 3
    /\ CountOf(board, 3 - call.player) > 0

\* This step is a reset_game(): the one at the start of run_game_loop, or
\* the one that a click on the restart button or the auto-restart makes
\* once the game is over.
ResetStep ==
    \/ driver = "battle_ui" /\ pc = "start" /\ pc' = "loop"
    \/ pc = "loop" /\ pc' = "loop" /\ game_over

\* C20: after reset_game every cell is Empty, current_player is 1,
\* game_over is false and winner is None, whatever the board, the turn and
\* the outcome were before.
C20_ResetState ==
    [][ResetStep =>
          /\ \A m \in Cells : board'[m[1]][m[2]] = 0
          /\ current_player' = 1
          /\ game_over' = FALSE
          /\ winner' = None]_vars

\* run_game_loop after a restart: the last request of the provider was made
\* on a 2 x 2 board with a single Empty cell, that game has ended, and the
\* board is Empty again with player 1 to move and no outcome.
C20_Witness ==
    /\ driver = "battle_ui" /\ pc = "loop"
    /\ GRID_SIZE = 2
    /\ Len(valid_moves) = 1
    /\ \A m \in Cells : board[m[1]][m[2]] = 0
    /\ current_player = 1 /\ ~game_over /\ winner = None

----------------------------------------------------------------------------
(* The sequencing of run_game_loop *)

\* A request to the provider is outstanding: run_game_loop is suspended in
\* its await.
Outstanding == driver = "battle_ui" /\ pc = "await"

\* This step hands a new request to the provider.
NewRequest == driver = "battle_ui" /\ pc' = "await" /\ vars' # vars

\* C21: run_game_loop is strictly sequential.  A request is only made while
\* none is outstanding; while one is outstanding the snapshot handed to the
\* provider is the one of the board as it is; and the step that ends the
\* request is the only one that can change the board or current_player: the
\* move it applies was Empty on the board of the snapshot, is one of the
\* snapshot's valid moves and is made for the player the request was for.
C21_SequentialDriver ==
    [][/\ NewRequest => (~Outstanding /\ ~llm_thinking)
       /\ Outstanding =>
             /\ llm_thinking
             /\ valid_moves = board_state_valid_moves(board)
             /\ ~Outstanding'
             /\ (board' # board \/ current_player' # current_player) =>
                   /\ \E i \in 1..Len(valid_moves) :
                         valid_moves[i] = <<call'.row, call'.col>>
                   /\ call'.player = current_player
                   /\ call'.was = 0
                   /\ current_player' = 3 - current_player]_vars

\* A request is outstanding on a board that already holds pieces of both
\* players, the last of them put there in place of an invalid proposal.
C21_Witness ==
    /\ Outstanding /\ llm_thinking
    /\ call.via = "invalid"
    /\ CountOf(board, 1) >= 1 /\ CountOf(board, 2) >= 1
    /\ Len(valid_moves) = GRID_SIZE * GRID_SIZE - 2

----------------------------------------------------------------------------
(* The agents' capture count against make_move *)

\* The cells that the last call took from the opponent.
Flipped ==
    {m \in Cells : /\ pre[m[1]][m[2]] = 3 - call.player
                   /\ board[m[1]][m[2]] = call.player}

\* C22: for every board over {0, 1, 2}, every player and every valid move,
\* _count_potential_captures on the board before the move is the number of
\* cells that make_move flips: the cells whose content the call changed,
\* other than the placed one, are as many, and each went from the opponent
\* to the player.
C22_CountIsFlips ==
    ValidCall =>
        /\ count_potential_captures(pre, call.row, call.col, call.player)
              = Cardinality(Changed)
        /\ Changed = Flipped

\* Player 2 moved to an inner cell with three neighbours of player 1 and one
\* of its own: three are counted and three are flipped.
C22_Witness ==
    /\ ValidCall
    /\ call.player = 2
    /\ Cardinality(Flipped) = 3
    /\ Cardinality({m \in Orthogonal(call.row, call.col) :
                       pre[m[1]][m[2]] = 2}) = 1
    /\ count_potential_captures(pre, call.row, call.col, call.player) = 3

----------------------------------------------------------------------------
(* The retry loop of GroqAgent.get_move and GoogleAgent.get_move *)

\* The retry loop is about to make the API call of pass number attempt.
Attempting == driver = "agent" /\ pc = "attempt"

\* C23: for one move request the retry loop makes at most max_retries API
\* calls (the passes 0 .. max_retries - 1); a pass that fails before the
\* last one is followed by the next pass, with nothing returned yet; a
\* failure of pass max_retries - 1 ends get_move in its except block, which
\* returns a move of valid_moves of maximal heuristic score; get_move never
\* ends by raising once it is in the loop, and makes no further pass.
C23_BoundedRetries ==
    [][Attempting =>
          /\ attempt \in 0 .. max_retries - 1
          /\ pc' \in {"attempt", "fallback", "done"}
          /\ pc' = "attempt" =>
                /\ attempt < max_retries - 1
                /\ attempt' = attempt + 1
                /\ outcome'.kind = "pending"
          /\ pc' = "fallback" =>
                /\ attempt = max_retries - 1
                /\ outcome'.kind = "move"
                /\ <<outcome'.row, outcome'.col>> \in Range(valid_moves)
                /\ \A n \in Range(valid_moves) :
                      SelectorScore(board, n, current_player)
                          <= SelectorScore(board,
                                           <<outcome'.row, outcome'.col>>,
                                           current_player)
          /\ pc' = "done" => outcome'.kind = "move"]_vars

\* GoogleAgent.get_move has returned from the except block of its third
\* pass, with the corner (0, 0) chosen from a list of three moves.
C23_Witness ==
    /\ driver = "agent" /\ pc = "fallback"
    /\ agent = "google"
    /\ attempt = max_retries - 1
    /\ Len(valid_moves) = 3
    /\ outcome = Returned(<<0, 0>>)

\* get_move has ended, in whichever way.
GetMoveEnded == driver = "agent" /\ pc \in {"done", "fallback"}

\* C24: with a non-empty valid_moves (and max_retries >= 1), get_move of
\* RandomAgent, GroqAgent and GoogleAgent ends by returning a (row, col)
\* that is an element of board_state["valid_moves"], whether the API
\* answered with a legal move, with an answer that names none, or failed in
\* every pass.
C24_ReturnsValidMove ==
    (GetMoveEnded /\ valid_moves # <<>> /\ max_retries >= 1) =>
        /\ outcome.kind = "move"
        /\ \E i \in 1 .. Len(valid_moves) :
              valid_moves[i] = <<outcome.row, outcome.col>>

\* GroqAgent.get_move returned from its second pass, after one failed pass,
\* with the last of four valid moves.
C24_Witness ==
    /\ driver = "agent" /\ pc = "done"
    /\ agent = "groq"
    /\ attempt = 1
    /\ Len(valid_moves) = 4
    /\ outcome = Returned(valid_moves[4])

----------------------------------------------------------------------------
(* One call of run_game_with_callback: battle_ui.run_game_loop with        *)
(* wrapped_get_llm_move as its provider, the statistics of battle_ui, the  *)
(* recording of run_match, and a GoogleAgent as one of the two agents.     *)
(* The grid has an even side, as the program's has.                        *)

\* battle_stats["games"] from which no further game is restarted.
MaxPlayed == 2

\* The length of moves_history from which no further request is made.
MaxRecorded == 3

\* The entry of moves_history / the value of last_move for a move.
MoveRecord(player, row, col) == <<player, row, col>>

\* Variant: a game that ends is counted twice.
check_game_over_stats_Twice(b, st) ==
    IF is_board_full(b)
    THEN [wins |-> [p \in {1, 2} |->
                      IF DetermineWinner(b) = p THEN st.wins[p] + 1
                      ELSE st.wins[p]],
          ties |-> IF DetermineWinner(b) = None THEN st.ties + 1 ELSE st.ties,
          games |-> st.games + 2]
    ELSE st

\* check_game_over() on the board b: battle_stats after the call.
check_game_over_stats(b, st) ==
    IF is_board_full(b)
    THEN [wins |-> [p \in {1, 2} |->
                      IF DetermineWinner(b) = p THEN st.wins[p] + 1
                      ELSE st.wins[p]],
          ties |-> IF DetermineWinner(b) = None THEN st.ties + 1 ELSE st.ties,
          games |-> st.games + 1]
    ELSE st

\* make_move, the change of turn and check_game_over() with its statistics.
MatchPlayMove(row, col, via) ==
    /\ PlayMove(row, col, via)
    /\ battle_stats' = check_game_over_stats(board', battle_stats)

MatchInit ==
    /\ GRID_SIZE \in {n \in 1 .. MaxGrid : n % 2 = 0}
    /\ driver = "match"
    /\ board = EmptyBoard
    /\ current_player = 1
    /\ game_over = FALSE
    /\ winner = None
    /\ llm_thinking = FALSE
    /\ auto_restart \in BOOLEAN
    /\ pc = "start"
    /\ result = NoResult
    /\ call = NoCall
    /\ pre = board
    /\ agent = "none"
    /\ board_type = "list"
    /\ valid_moves = <<>>
    /\ attempt = 0
    /\ outcome = NoOutcome
    /\ battle_stats = NoStats
    /\ last_move = NoMove
    /\ moves_history = <<>>
    /\ first_move_of_game = TRUE
    /\ TournamentIdle

\* run_game_with_callback(get_llm_move) without a callback, between any two
\* agents, one of which may be a GoogleAgent.
BattleInit ==
    /\ MatchInit
    /\ state_callback = "None"
    /\ google_seat \in 0 .. 2

\* run_game_with_callback(get_llm_move, record_state_callback) as run_match
\* calls it, between two agents that are not GoogleAgents.
RecordInit ==
    /\ MatchInit
    /\ state_callback = "record_state_callback"
    /\ google_seat = 0

\* The body of run_match's loop up to the first iteration of run_game_loop:
\* moves_history = [], last_move = None, init_game() and reset_game().
MatchRunGame ==
    /\ driver = "match" /\ pc = "start"
    /\ reset_game
    /\ moves_history' = <<>>
    /\ last_move' = NoMove
    /\ pc' = "loop"
    /\ UNCHANGED <<GRID_SIZE, driver, llm_thinking, auto_restart, result>>
    /\ UNCHANGED <<battle_stats, state_callback, google_seat,
                   first_move_of_game>>
    /\ UNCHANGED <<agentvars, tournamentvars>>

\* pygame.QUIT: run_game_loop returns False and run_game_with_callback
\* returns its dictionary.
MatchQuit ==
    /\ driver = "match" /\ pc = "loop"
    /\ result' = [winner |-> ResultWinner(board),
                  final_score |-> count_pieces(board),
                  continue_tournament |-> FALSE,
                  returned |-> TRUE]
    /\ pc' = "returned"
    /\ UNCHANGED <<GRID_SIZE, driver, board, current_player, game_over, winner,
                   llm_thinking, auto_restart, call, pre>>
    /\ UNCHANGED <<agentvars, matchvars, tournamentvars>>

\* A click on the restart button once the game is over.
MatchRestartClick ==
    /\ driver = "match" /\ pc = "loop"
    /\ game_over /\ ~auto_restart
    /\ battle_stats.games < MaxPlayed
    /\ reset_game
    /\ UNCHANGED <<GRID_SIZE, driver, llm_thinking, auto_restart, pc, result>>
    /\ UNCHANGED <<agentvars, matchvars, tournamentvars>>

\* The automatic restart once the game is over.
MatchAutoRestart ==
    /\ driver = "match" /\ pc = "loop"
    /\ game_over /\ auto_restart
    /\ battle_stats.games < MaxPlayed
    /\ reset_game
    /\ UNCHANGED <<GRID_SIZE, driver, llm_thinking, auto_restart, pc, result>>
    /\ UNCHANGED <<agentvars, matchvars, tournamentvars>>

\* The request of run_game_loop up to the API call of the agent:
\* start_thinking(), get_board_state(), wrapped_get_llm_move calling
\* state_callback(board, last_move, current_player), which appends
\* last_move to moves_history unless it is None, and for the GoogleAgent the
\* head of get_move, which leaves first_move_of_game False unless the board
\* it is given has at most one Empty cell.
MatchRequest ==
    /\ driver = "match" /\ pc = "loop"
    /\ ~game_over /\ ~llm_thinking
    /\ state_callback = "None" \/ Len(moves_history) < MaxRecorded
    /\ llm_thinking' = TRUE
    /\ pc' = "await"
    /\ valid_moves' = board_state_valid_moves(board)
    /\ moves_history' =
          IF state_callback # "None" /\ last_move # NoMove
          THEN Append(moves_history, last_move)
          ELSE moves_history
    /\ first_move_of_game' =
          IF current_player = google_seat THEN empty_count(board) <= 1
          ELSE first_move_of_game
    /\ UNCHANGED <<GRID_SIZE, driver, board, current_player, game_over, winner,
                   auto_restart, result, call, pre>>
    /\ UNCHANGED <<agent, board_type, attempt, outcome>>
    /\ UNCHANGED <<battle_stats, state_callback, last_move, google_seat>>
    /\ UNCHANGED tournamentvars

\* The agent returned (row, col): wrapped_get_llm_move sets last_move to
\* (player, row, col) and returns, and run_game_loop validates and plays as
\* in its try block.  Only state_callback ever reads last_move: without a
\* callback its value is not followed.
MatchProviderReturn ==
    /\ driver = "match" /\ pc = "await"
    /\ \E m \in Proposals :
          /\ last_move' = IF state_callback = "None" THEN last_move
                          ELSE MoveRecord(current_player, m[1], m[2])
          /\ IF is_valid_move(board, m[1], m[2])
             THEN /\ llm_thinking' = FALSE
                  /\ MatchPlayMove(m[1], m[2], "proposal")
             ELSE IF get_valid_moves(board) # {}
             THEN /\ llm_thinking' = FALSE
                  /\ \E v \in get_valid_moves(board) :
                        MatchPlayMove(v[1], v[2], "invalid")
             ELSE UNCHANGED <<board, current_player, game_over, winner,
                              llm_thinking, call, pre, battle_stats>>
    /\ pc' = "loop"
    /\ UNCHANGED <<GRID_SIZE, driver, auto_restart, result>>
    /\ UNCHANGED <<state_callback, moves_history, google_seat,
                   first_move_of_game>>
    /\ UNCHANGED <<agentvars, tournamentvars>>

\* The agent raised: last_move keeps its value, and the except block of
\* run_game_loop plays a random valid move.
MatchProviderRaise ==
    /\ driver = "match" /\ pc = "await"
    /\ llm_thinking' = FALSE
    /\ IF get_valid_moves(board) # {}
       THEN \E v \in get_valid_moves(board) :
               MatchPlayMove(v[1], v[2], "raised")
       ELSE UNCHANGED <<board, current_player, game_over, winner, call, pre,
                        battle_stats>>
    /\ pc' = "loop"
    /\ UNCHANGED <<GRID_SIZE, driver, auto_restart, result>>
    /\ UNCHANGED <<state_callback, last_move, moves_history, google_seat,
                   first_move_of_game>>
    /\ UNCHANGED <<agentvars, tournamentvars>>

MatchNext ==
    \/ MatchRunGame
    \/ MatchQuit
    \/ MatchRestartClick
    \/ MatchAutoRestart
    \/ MatchRequest
    \/ MatchProviderReturn
    \/ MatchProviderRaise

BattleSpec == BattleInit /\ [][MatchNext]_vars

RecordSpec == RecordInit /\ [][MatchNext]_vars

----------------------------------------------------------------------------
(* GoogleAgent's detection of a new game *)

\* This step is the GoogleAgent's first get_move call of a game that is not
\* its first: a game has been played to its end before, and in this one the
\* agent has not moved yet (as player 1 it is asked on the empty board, as
\* player 2 after one move).
GoogleOpensLaterGame ==
    /\ driver = "match" /\ pc = "loop" /\ pc' = "await"
    /\ google_seat # 0 /\ current_player = google_seat
    /\ Occupied(board) = google_seat - 1
    /\ battle_stats.games >= 1

\* C25 as claimed: the GoogleAgent's first get_move call of every game after
\* its first enters with first_move_of_game = True, whether the agent plays
\* as player 1 or as player 2.
C25_NewGameDetected ==
    [][GoogleOpensLaterGame => first_move_of_game]_vars

----------------------------------------------------------------------------
(* llm_battle.tournament: Tournament.run_tournament and run_match, with    *)
(* the records of the agents (BaseAgent.record_result).  game_ui_func is a *)
(* parameter: what a game returns is an input, and the board of the game   *)
(* is not followed.                                                        *)

\* The largest number of agents of a Tournament.
MaxAgents == 3

\* The largest num_games of a Tournament.
MaxGames == 2

\* The record of an agent as BaseAgent.__init__ leaves it.
NewRecord == [games_played |-> 0, wins |-> 0, losses |-> 0, ties |-> 0]

\* Variant: a loss is counted as a game played and nothing else.
record_result_LossDropped(st, res) ==
    [games_played |-> st.games_played + 1,
     wins |-> IF res = "win" THEN st.wins + 1 ELSE st.wins,
     losses |-> st.losses,
     ties |-> IF res = "tie" THEN st.ties + 1 ELSE st.ties]

\* BaseAgent.record_result(result) on the record st.
record_result(st, res) ==
    [games_played |-> st.games_played + 1,
     wins |-> IF res = "win" THEN st.wins + 1 ELSE st.wins,
     losses |-> IF res = "loss" THEN st.losses + 1 ELSE st.losses,
     ties |-> IF res = "tie" THEN st.ties + 1 ELSE st.ties]

\* Variant: every pair of indices plays.
plays_match_Any(a1, a2) == TRUE

\* if i != j:  # Don't play against self
plays_match(a1, a2) == a1 # a2

\* The final scores a game can end with, one for each outcome: player 1
\* ahead, player 2 ahead, level (as when the window is closed at once).
Scores == {<<1, 0>>, <<0, 1>>, <<0, 0>>}

\* What run_match records for the two agents of a game won by w.
ResultFor(w, seat) ==
    IF w = None THEN "tie" ELSE IF w = seat THEN "win" ELSE "loss"

TournamentInit ==
    /\ GRID_SIZE = ProgramGrid
    /\ driver = "tournament"
    /\ board = EmptyBoard
    /\ current_player = 1
    /\ game_over = FALSE
    /\ winner = None
    /\ llm_thinking = FALSE
    /\ auto_restart \in BOOLEAN
    /\ pc = "pairs"
    /\ result = NoResult
    /\ call = NoCall
    /\ pre = board
    /\ agent = "none"
    /\ board_type = "list"
    /\ valid_moves = <<>>
    /\ attempt = 0
    /\ outcome = NoOutcome
    /\ MatchIdle
    /\ num_agents \in 0 .. MaxAgents
    /\ num_games \in 0 .. MaxGames
    /\ pair = <<0, 0>>
    /\ game_num = 0
    /\ current_game_id = 0
    /\ stats = [a \in 0 .. num_agents - 1 |-> NewRecord]
    /\ match_results = NewMatch(0, 0)
    /\ matches = <<>>

\* The part of the frame that no step of the Tournament changes.
TournamentFrame ==
    /\ UNCHANGED <<GRID_SIZE, driver, board, current_player, game_over, winner,
                   llm_thinking, auto_restart, call, pre>>
    /\ UNCHANGED <<agentvars, matchvars>>
    /\ UNCHANGED <<num_agents, num_games>>

\* for i, agent1 ...: for j, agent2 ...: if i != j: run_match(agent1,
\* agent2, game_ui_func), up to the head of its loop over the games.
RunMatch ==
    /\ driver = "tournament" /\ pc = "pairs"
    /\ pair[1] < num_agents /\ pair[2] < num_agents
    /\ plays_match(pair[1], pair[2])
    /\ match_results' = NewMatch(pair[1], pair[2])
    /\ game_num' = 1
    /\ pc' = "games"
    /\ UNCHANGED <<pair, current_game_id, stats, matches, result>>
    /\ TournamentFrame

\* i = j: the inner loop goes on to the next j.
SkipSelf ==
    /\ driver = "tournament" /\ pc = "pairs"
    /\ pair[1] < num_agents /\ pair[2] < num_agents
    /\ ~plays_match(pair[1], pair[2])
    /\ pair' = <<pair[1], pair[2] + 1>>
    /\ UNCHANGED <<pc, game_num, current_game_id, stats, match_results,
                   matches, result>>
    /\ TournamentFrame

\* The inner loop is exhausted: the outer loop goes on to the next i.
NextAgent1 ==
    /\ driver = "tournament" /\ pc = "pairs"
    /\ pair[1] < num_agents /\ pair[2] >= num_agents
    /\ pair' = <<pair[1] + 1, 0>>
    /\ UNCHANGED <<pc, game_num, current_game_id, stats, match_results,
                   matches, result>>
    /\ TournamentFrame

\* The outer loop is exhausted: the statistics are computed and saved.
FinishTournament ==
    /\ driver = "tournament" /\ pc = "pairs"
    /\ pair[1] >= num_agents
    /\ pc' = "finished"
    /\ UNCHANGED <<pair, game_num, current_game_id, stats, match_results,
                   matches, result>>
    /\ TournamentFrame

\* for game_num in range(1, self.num_games + 1): self.current_game_id += 1,
\* and game_ui_func is called.
StartGame ==
    /\ driver = "tournament" /\ pc = "games"
    /\ game_num <= num_games
    /\ current_game_id' = current_game_id + 1
    /\ pc' = "playing"
    /\ UNCHANGED <<pair, game_num, stats, match_results, matches, result>>
    /\ TournamentFrame

\* game_ui_func returns game_result.  run_game_with_callback returns when
\* run_game_loop does, and run_game_loop only ever returns False.
GameReturns ==
    /\ driver = "tournament" /\ pc = "playing"
    /\ \E s \in Scores :
          result' = [winner |-> IF s[1] > s[2] THEN 1
                                ELSE IF s[2] > s[1] THEN 2 ELSE None,
                     final_score |-> s,
                     continue_tournament |-> FALSE,
                     returned |-> TRUE]
    /\ pc' = "record"
    /\ UNCHANGED <<pair, game_num, current_game_id, stats, match_results,
                   matches>>
    /\ TournamentFrame

\* The rest of the body of the loop: the game record is appended, and the
\* result is counted in match_results and recorded by both agents.
RecordGame ==
    /\ driver = "tournament" /\ pc = "record"
    /\ match_results' =
          [match_results EXCEPT
              !.games = @ + 1,
              !.agent1_wins = IF result.winner = 1 THEN @ + 1 ELSE @,
              !.agent2_wins = IF result.winner = 2 THEN @ + 1 ELSE @,
              !.ties = IF result.winner \notin {1, 2} THEN @ + 1 ELSE @]
    /\ stats' =
          [a \in DOMAIN stats |->
              LET first == IF a = match_results.agent1
                           THEN record_result(stats[a],
                                              ResultFor(result.winner, 1))
                           ELSE stats[a]
              IN  IF a = match_results.agent2
                  THEN record_result(first, ResultFor(result.winner, 2))
                  ELSE first]
    /\ game_num' = game_num + 1
    /\ pc' = "games"
    /\ UNCHANGED <<pair, current_game_id, matches, result>>
    /\ TournamentFrame

\* The loop over the games is exhausted: run_match returns match_results,
\* run_tournament appends it, and the inner loop goes on to the next j.
EndMatch ==
    /\ driver = "tournament" /\ pc = "games"
    /\ game_num > num_games
    /\ matches' = Append(matches, <<match_results.agent1, match_results.agent2>>)
    /\ pair' = <<pair[1], pair[2] + 1>>
    /\ pc' = "pairs"
    /\ UNCHANGED <<game_num, current_game_id, stats, match_results, result>>
    /\ TournamentFrame

TournamentNext ==
    \/ RunMatch
    \/ SkipSelf
    \/ NextAgent1
    \/ FinishTournament
    \/ StartGame
    \/ GameReturns
    \/ RecordGame
    \/ EndMatch

TournamentSpec == TournamentInit /\ [][TournamentNext]_vars

----------------------------------------------------------------------------
(* The properties of the Tournament *)

\* The last game returned with continue_tournament False: run_game_loop
\* returned False, as it does when the window is closed.
WindowClosed ==
    /\ driver = "tournament"
    /\ result.returned /\ ~result.continue_tournament

\* C26 as claimed: once run_game_loop has returned False, run_match and
\* run_tournament start no further game (current_game_id stays) and record
\* no further result for the agents (their records stay).
C26_CloseStopsTournament ==
    [][WindowClosed =>
          (current_game_id' = current_game_id /\ stats' = stats)]_vars

\* The number of matches in which agent a was agent1 (seat 1) or agent2
\* (seat 2).
MatchesAs(a, seat) ==
    Cardinality({k \in 1 .. Len(matches) : matches[k][seat] = a})

\* The tournament has run to its end.
Finished == driver = "tournament" /\ pc = "finished"

----------------------------------------------------------------------------
(* The record of a game *)

\* run_game_with_callback has returned to run_match, which saves
\* moves_history, and every move since its call was made in one game: no
\* game was restarted.
FirstGameSaved ==
    /\ driver = "match" /\ state_callback # "None"
    /\ result.returned
    /\ battle_stats.games = 0 \/ (battle_stats.games = 1 /\ game_over)

\* C28 as claimed: the moves_history that is saved holds the moves made in
\* the game, all of them and in order.  Every move occupies one cell, so it
\* has as many entries as the board has occupied cells; its last entry is
\* the last move that make_move applied; and every entry (player, row, col)
\* is a move of the player whose turn it was, onto a cell of the grid that
\* is occupied since.
C28_HistoryIsMovesMade ==
    FirstGameSaved =>
        /\ Len(moves_history) = Occupied(board)
        /\ call.via # "none" =>
              moves_history[Len(moves_history)]
                  = MoveRecord(call.player, call.row, call.col)
        /\ \A k \in 1 .. Len(moves_history) :
              /\ moves_history[k][1] = 1 + ((k - 1) % 2)
              /\ InRange(moves_history[k][2], moves_history[k][3])
              /\ board[moves_history[k][2]][moves_history[k][3]] # 0

----------------------------------------------------------------------------
(* The accounting of run_match *)

\* The sum of one counter over the records of the agents 0 .. n - 1.
RECURSIVE TotalOf(_, _)
TotalOf(counter, n) ==
    IF n = 0 THEN 0 ELSE stats[n - 1][counter] + TotalOf(counter, n - 1)

\* How much the counter of match_results rises in this step.
RiseOf(counter) == match_results'[counter] - match_results[counter]

\* run_match is about to process the result of a game.
Processing == driver = "tournament" /\ pc = "record"

\* C29: every game that run_match processes is accounted once and
\* complementarily.  The step that processes it raises exactly one of
\* agent1_wins, agent2_wins and ties by 1, makes agent1 and agent2 record
\* one result each (a win against a loss, or two ties) and touches no other
\* agent, and no other step changes a record; so at all times every agent
\* has games_played = wins + losses + ties, agent1_wins + agent2_wins + ties
\* is the number of games of the match, and the wins of all agents together
\* equal their losses.
C29_Accounting ==
    /\ [](driver = "tournament" =>
            /\ \A a \in DOMAIN stats :
                  stats[a].games_played
                      = stats[a].wins + stats[a].losses + stats[a].ties
            /\ match_results.agent1_wins + match_results.agent2_wins
                  + match_results.ties = match_results.games
            /\ TotalOf("wins", num_agents) = TotalOf("losses", num_agents))
    /\ [][/\ (stats' # stats /\ driver = "tournament") => Processing
          /\ Processing =>
                LET a1 == match_results.agent1
                    a2 == match_results.agent2
                IN  /\ RiseOf("games") = 1
                    /\ {RiseOf("agent1_wins"), RiseOf("agent2_wins"),
                        RiseOf("ties")} = {0, 1}
                    /\ RiseOf("agent1_wins") + RiseOf("agent2_wins")
                          + RiseOf("ties") = 1
                    /\ stats'[a1].games_played = stats[a1].games_played + 1
                    /\ stats'[a2].games_played = stats[a2].games_played + 1
                    /\ stats'[a1].wins - stats[a1].wins
                          = RiseOf("agent1_wins")
                    /\ stats'[a2].losses - stats[a2].losses
                          = RiseOf("agent1_wins")
                    /\ stats'[a2].wins - stats[a2].wins
                          = RiseOf("agent2_wins")
                    /\ stats'[a1].losses - stats[a1].losses
                          = RiseOf("agent2_wins")
                    /\ stats'[a1].ties - stats[a1].ties = RiseOf("ties")
                    /\ stats'[a2].ties - stats[a2].ties = RiseOf("ties")
                    /\ \A a \in DOMAIN stats \ {a1, a2} :
                          stats'[a] = stats[a]]_vars

\* A tournament of three agents has ended in which the first agent played
\* eight games and won, lost and tied some of them.
C29_Witness ==
    /\ Finished
    /\ num_agents = 3
    /\ stats[0].games_played = 8
    /\ stats[0].wins >= 1 /\ stats[0].losses >= 1 /\ stats[0].ties >= 1
    /\ TotalOf("ties", num_agents) = 4

----------------------------------------------------------------------------
(* The length of a game *)

\* run_game_with_callback as the event loop schedules it: the loop is
\* entered, an iteration that can ask for a move does, an agent that was
\* asked returns or raises, and the restart delay runs out.  What the user
\* does (closing the window, clicking) is not promised.
FairBattleSpec ==
    /\ BattleInit /\ [][MatchNext]_vars
    /\ WF_vars(MatchRunGame)
    /\ WF_vars(MatchRequest)
    /\ WF_vars(MatchProviderReturn \/ MatchProviderRaise)
    /\ WF_vars(MatchAutoRestart)

\* A game is being played in the loop.
GameRunning == driver = "match" /\ pc \in {"loop", "await"} /\ ~game_over

\* This step applies a move to the board.
MoveMade == driver = "match" /\ board' # board /\ board' # EmptyBoard

\* The number of cells of the grid: 64 in the program.
GridCells == GRID_SIZE * GRID_SIZE

\* C30: on a grid of even side (8 in the program, so 64 cells) a game that
\* reset_game started reaches game_over, unless the window is closed first,
\* however many proposals are illegal or fail.  Every request ends in
\* exactly one applied move; the move made with k cells occupied is player
\* 1's for even k and player 2's for odd k, and raises k by one; the game is
\* over exactly when all cells are occupied: after GridCells moves, half of
\* them by each player, the last by player 2.  check_game_over records a
\* game exactly once: battle_stats changes in the step that ends the game
\* and in no other, by one game and by one win of the winner or one tie.
C30_GameLength ==
    /\ [](driver = "match" =>
            /\ game_over <=> Occupied(board) = GridCells
            /\ game_over => (call.via # "none" /\ call.player = 2)
            /\ battle_stats.games
                  = battle_stats.wins[1] + battle_stats.wins[2]
                    + battle_stats.ties)
    /\ [][/\ (driver = "match" /\ pc = "await") => MoveMade
          /\ MoveMade =>
                /\ ~game_over
                /\ Occupied(board') = Occupied(board) + 1
                /\ call'.player = 1 + (Occupied(board) % 2)
                /\ board'[call'.row][call'.col] = call'.player
          /\ (driver = "match" /\ battle_stats' # battle_stats)
                <=> (driver = "match" /\ ~game_over /\ game_over')
          /\ (driver = "match" /\ ~game_over /\ game_over') =>
                /\ battle_stats'.games = battle_stats.games + 1
                /\ \A p \in {1, 2} :
                      battle_stats'.wins[p] =
                          battle_stats.wins[p] + (IF winner' = p THEN 1 ELSE 0)
                /\ battle_stats'.ties =
                      battle_stats.ties + (IF winner' = None THEN 1 ELSE 0)]_vars
    /\ GameRunning ~> (game_over \/ pc = "returned")

\* The second game of a run has ended with player 2's move, a random move
\* made in place of a failed request; two games are recorded.
C30_Witness ==
    /\ driver = "match" /\ pc = "loop"
    /\ game_over
    /\ Occupied(board) = GridCells
    /\ call.player = 2 /\ call.via = "raised"
    /\ battle_stats.games = 2

=============================================================================
